---- MODULE Spec2Model ----
(***************************************************************************)
(* Model of briefcase's Android APK backend                                *)
(* (src/briefcase/platforms/android/apk.py): the tool verification and SDK *)
(* provisioning of ApkMixin / ApkRunCommand, the gradle build of           *)
(* ApkBuildCommand and the adb deployment of ApkRunCommand.                *)
(*                                                                         *)
(* The filesystem is the set of paths that exist (files) and the set of    *)
(* paths with the executable bit (execs).  Every external operation an     *)
(* invocation performs is appended to calls with its outcome.  A handler   *)
(* is an operator from a handler state [files, execs, calls, exc] and the  *)
(* outcomes of the external operations to the handler state it ends in;    *)
(* exc is the exception that left the handler, NoExc when it returned.     *)
(***************************************************************************)
EXTENDS Integers, Sequences, FiniteSets, TLC

VARIABLES
    command,              \* command of the current invocation
    app,                  \* the app the command is invoked for
    device,               \* the --device option of the run command
    python_version_tag,   \* host Python version of the invocation
    host_os,              \* host operating system
    net,                  \* what the network does to a download
    environ,              \* os.environ of the host
    build_env,            \* env given to the last gradle subprocess
    files,                \* paths that exist
    execs,                \* paths that are executable
    calls,                \* external operations of the current invocation
    exc,                  \* exception that ended the current invocation
    pc,                   \* position of the current invocation
    handler,              \* the handler the invocation ran last
    files0,               \* files when the current invocation started
    execs0,               \* execs when the current invocation started
    invocations           \* number of command invocations so far

vars == <<command, app, device, python_version_tag, host_os, net, environ,
          build_env, files, execs, calls, exc, pc, handler, files0, execs0,
          invocations>>

----------------------------------------------------------------------------
(* Bounds *)

MaxInvocations == 3

----------------------------------------------------------------------------
(* Inputs *)

Commands == {"create", "build", "run"}

Apps == { [app_name |-> "helloworld", bundle |-> "org.beeware",
           formal_name |-> "Hello World"],
          [app_name |-> "notes", bundle |-> "com.example",
           formal_name |-> "Notes"] }

None == "<None>"

DeviceIds == {"emulator-5554", "R58M12ABCDE"}

DeviceOptions == {None, ""} \cup DeviceIds

PythonVersions == {"3.7", "3.9"}

HostOs == {"Linux", "Darwin"}

\* outcome of the HTTP transfer of download_url
NetOutcomes == {"ok", "ConnectionError", "ReadTimeout"}

\* str.lower() on the host_os names
Lower(os) == IF os = "Linux" THEN "linux"
             ELSE IF os = "Darwin" THEN "darwin" ELSE os

----------------------------------------------------------------------------
(* Paths *)

Join(a, b) == a \o "/" \o b

tools_dir == "~/.briefcase/tools"

android_sdk_path == Join(tools_dir, "android_sdk")

platform_path == "android"

binary_path(a) ==
    Join(platform_path,
         Join(a.formal_name, "app/build/outputs/apk/debug/app-debug.apk"))

bundle_path(a) == Join(platform_path, a.formal_name)

android_sdk_url(os) ==
    "https://dl.google.com/android/repository/"
        \o ("sdk-tools-" \o Lower(os) \o "-4333796.zip")

\* download_url stores the archive under the last component of the URL
android_sdk_zip_path(os) ==
    Join(tools_dir, "sdk-tools-" \o Lower(os) \o "-4333796.zip")

tools_bin_path == Join(android_sdk_path, "tools/bin")

sdkmanager_path == Join(tools_bin_path, "sdkmanager")

avdmanager_path == Join(tools_bin_path, "avdmanager")

licenses_path == Join(android_sdk_path, "licenses")

emulator_path == Join(android_sdk_path, "emulator")

adb_path == Join(android_sdk_path, "platform-tools/adb")

\* the entries of the SDK archive, in the order glob lists them
ToolsBinEntries == <<sdkmanager_path, avdmanager_path>>

ArchiveEntries == {ToolsBinEntries[i] : i \in DOMAIN ToolsBinEntries}

\* what the package manager installs for the run pathway
EmulatorComponents == {emulator_path, adb_path}

----------------------------------------------------------------------------
(* Handler states, calls and exceptions *)

NoExc == [type |-> "None", msg |-> <<>>]

Raise(s, type, msg) == [s EXCEPT !.exc = [type |-> type, msg |-> msg]]

Failed(s) == s.exc # NoExc

\* record an external operation and its outcome
Call(s, op, out) == [s EXCEPT !.calls = Append(@, [op |-> op, out |-> out])]

\* attributes the classes of apk.py define, per command class (the MRO of
\* every command class contains ApkMixin; android_sdk_url is a property of
\* ApkBuildCommand alone; no class defines android_sdk_path_tmp)
ApkMixinAttrs ==
    {"output_format", "platform", "android_sdk_path", "binary_path",
     "distribution_path", "verify_tools"}

ClassAttrs(cmd) ==
    ApkMixinAttrs \cup
    (IF cmd = "build" THEN {"android_sdk_url", "build_app"}
     ELSE IF cmd = "run" THEN {"add_options", "run_app"}
     ELSE {})

HasAttr(cmd, name) == name \in ClassAttrs(cmd)

AttributeError(s, name) == Raise(s, "AttributeError", <<name>>)

\* subprocess.run of an executable file: the outcome before the tool runs
Spawn(s, path) ==
    IF path \notin s.files THEN "FileNotFoundError"
    ELSE IF path \notin s.execs THEN "PermissionError"
    ELSE "ok"

----------------------------------------------------------------------------
(* ApkMixin.verify_tools *)

RequiredPython == "3.7"

\* the message of lines 50-52 with its one replacement field
VersionMessage(tag) ==
    <<"Found Python version ", tag,
      ". Android packaging currently requires Python 3.7.">>

python_version_ok_Any(tag) == TRUE

\* line 49
python_version_ok(tag) == tag = RequiredPython

sdk_missing_Always(s) == TRUE

\* line 54
sdk_missing(s) == android_sdk_path \notin s.files

\* lines 56-62: self.android_sdk_url is evaluated first, then download_url
\* makes its single transfer; only requests' ConnectionError is caught
DownloadSdk(cmd, os, s, n) ==
    IF ~HasAttr(cmd, "android_sdk_url")
    THEN AttributeError(s, "android_sdk_url")
    ELSE LET c == Call(s, <<"download_url", android_sdk_url(os), tools_dir>>, n)
         IN  IF n = "ok"
             THEN [c EXCEPT !.files = @ \cup {android_sdk_zip_path(os)}]
             ELSE IF n = "ConnectionError"
             THEN Raise(c, "NetworkFailure", <<"downloading Android SDK">>)
             ELSE Raise(c, n, <<android_sdk_url(os)>>)

\* lines 63-64: extractall creates the root and writes the entries one by
\* one; x is the set of entries written before it stops
ExtractSdk(os, s, x) ==
    LET out == IF x = ArchiveEntries THEN "ok" ELSE "BadZipFile"
        c == Call(s, <<"extractall", android_sdk_zip_path(os),
                       android_sdk_path>>, out)
        w == [c EXCEPT !.files = @ \cup {android_sdk_path} \cup x,
                       !.execs = @ \ x]
    IN  IF out = "ok" THEN w ELSE Raise(w, out, <<android_sdk_zip_path(os)>>)

\* line 66
RemoveZip(os, s) ==
    [Call(s, <<"unlink", android_sdk_zip_path(os)>>, "ok")
        EXCEPT !.files = @ \ {android_sdk_zip_path(os)}]

\* lines 71-72: chmod of the entries of tools/bin, in glob order
RECURSIVE ChmodAll(_, _, _)
ChmodAll(s, entries, i) ==
    IF i > Len(entries) THEN s
    ELSE IF entries[i] \notin s.files THEN ChmodAll(s, entries, i + 1)
    ELSE ChmodAll([Call(s, <<"chmod", entries[i]>>, "ok")
                      EXCEPT !.execs = @ \cup {entries[i]}],
                  entries, i + 1)

\* lines 70-72: tools_bin is computed from self.android_sdk_path_tmp
SetExecutable(cmd, s) ==
    IF ~HasAttr(cmd, "android_sdk_path_tmp")
    THEN AttributeError(s, "android_sdk_path_tmp")
    ELSE ChmodAll(s, ToolsBinEntries, 1)

\* lines 75-79: sdkmanager --licenses with check=True
AcceptLicenses(s, rc) ==
    LET sp == Spawn(s, sdkmanager_path)
        op == <<"sdkmanager", "--licenses">>
    IN  IF sp # "ok" THEN Raise(Call(s, op, sp), sp, <<sdkmanager_path>>)
        ELSE IF rc # 0
        THEN Raise(Call(s, op, "nonzero"), "CalledProcessError", op)
        ELSE [Call(s, op, "ok") EXCEPT !.files = @ \cup {licenses_path}]

\* lines 54-79: the body of `if not self.android_sdk_path.exists()`
ProvisionSdk(cmd, os, s, n, x, rc) ==
    LET s1 == DownloadSdk(cmd, os, s, n) IN
    IF Failed(s1) THEN s1 ELSE
    LET s2 == ExtractSdk(os, s1, x) IN
    IF Failed(s2) THEN s2 ELSE
    LET s3 == SetExecutable(cmd, RemoveZip(os, s2)) IN
    IF Failed(s3) THEN s3 ELSE AcceptLicenses(s3, rc)

\* lines 44-79
ApkMixin_verify_tools(cmd, os, tag, s, n, x, rc) ==
    IF ~python_version_ok(tag)
    THEN Raise(s, "BriefcaseCommandError", VersionMessage(tag))
    ELSE IF sdk_missing(s) THEN ProvisionSdk(cmd, os, s, n, x, rc)
    ELSE s

----------------------------------------------------------------------------
(* ApkRunCommand.verify_tools *)

EmulatorPackages ==
    <<"sdkmanager", "platforms;android-28",
      "system-images;android-28;default;x86", "emulator", "platform-tools">>

\* lines 158-167: subprocess.run without check; the exit status is dropped
EnsureEmulator(s, rc) ==
    IF emulator_path \in s.files THEN s
    ELSE LET sp == Spawn(s, sdkmanager_path) IN
         IF sp # "ok"
         THEN Raise(Call(s, EmulatorPackages, sp), sp, <<sdkmanager_path>>)
         ELSE IF rc # 0 THEN Call(s, EmulatorPackages, "nonzero")
         ELSE [Call(s, EmulatorPackages, "ok")
                  EXCEPT !.files = @ \cup EmulatorComponents,
                         !.execs = @ \cup EmulatorComponents]

\* lines 156-167
ApkRunCommand_verify_tools(os, tag, s, n, x, rc, erc) ==
    LET s1 == ApkMixin_verify_tools("run", os, tag, s, n, x, rc) IN
    IF Failed(s1) THEN s1 ELSE EnsureEmulator(s1, erc)

----------------------------------------------------------------------------
(* ApkBuildCommand.build_app *)

ExitCodes == {0, 1}

\* what a gradle run does to the artifact: a run that exits 0 has written
\* it or found nothing to do; a run that fails has not written it
GradleEffects(rc) ==
    IF rc = 0 THEN {"written", "untouched"} ELSE {"untouched", "deleted"}

SDK_ROOT_VAR == "ANDROID_SDK_ROOT"

\* the environments a host gives the command
Environments ==
    { ("PATH" :> "/usr/bin"),
      ("PATH" :> "/usr/bin") @@ (SDK_ROOT_VAR :> "/opt/android-sdk"),
      ("JAVA_HOME" :> "/usr/lib/jvm") @@ ("PATH" :> "/usr/bin")
          @@ (SDK_ROOT_VAR :> android_sdk_path) }

\* the order in which items() lists the variables
EnvironOrder == <<SDK_ROOT_VAR, "JAVA_HOME", "PATH">>

\* line 115: list(self.os.environ.items())
Items(env) ==
    LET keys == SelectSeq(EnvironOrder, LAMBDA k : k \in DOMAIN env)
    IN  [i \in DOMAIN keys |-> <<keys[i], env[keys[i]]>>]

LastIndex(pairs, k) ==
    CHOOSE i \in DOMAIN pairs :
        /\ pairs[i][1] = k
        /\ \A j \in DOMAIN pairs : pairs[j][1] = k => j <= i

FirstIndex(pairs, k) ==
    CHOOSE i \in DOMAIN pairs :
        /\ pairs[i][1] = k
        /\ \A j \in DOMAIN pairs : pairs[j][1] = k => j >= i

Dict_FirstWins(pairs) ==
    [k \in {pairs[i][1] : i \in DOMAIN pairs} |->
        pairs[FirstIndex(pairs, k)][2]]

\* line 115: dict() of a list of pairs; a later pair replaces an earlier
\* pair with the same key
Dict(pairs) ==
    [k \in {pairs[i][1] : i \in DOMAIN pairs} |->
        pairs[LastIndex(pairs, k)][2]]

\* lines 115-116: the env argument of the gradle subprocess
gradle_env(env) ==
    Dict(Items(env) \o << <<SDK_ROOT_VAR, android_sdk_path>> >>)

\* lines 113-119: ./gradlew assembleDebug in the bundle directory
RunGradle(a, s, rc, eff) ==
    LET c == Call(s, <<"./gradlew", "assembleDebug", bundle_path(a)>>,
                  IF rc = 0 THEN "ok" ELSE "nonzero")
    IN  IF eff = "written"
        THEN [c EXCEPT !.files = @ \cup {binary_path(a)},
                       !.execs = @ \ {binary_path(a)}]
        ELSE IF eff = "deleted"
        THEN [c EXCEPT !.files = @ \ {binary_path(a)},
                       !.execs = @ \ {binary_path(a)}]
        ELSE c

MakeExecutable_IfPresent(a, s) ==
    IF binary_path(a) \notin s.files THEN s
    ELSE [Call(s, <<"chmod", binary_path(a)>>, "ok")
             EXCEPT !.execs = @ \cup {binary_path(a)}]

\* line 122: os.chmod raises FileNotFoundError, which line 123 does not catch
MakeExecutable(a, s) ==
    IF binary_path(a) \notin s.files
    THEN Raise(Call(s, <<"chmod", binary_path(a)>>, "FileNotFoundError"),
               "FileNotFoundError", <<binary_path(a)>>)
    ELSE [Call(s, <<"chmod", binary_path(a)>>, "ok")
             EXCEPT !.execs = @ \cup {binary_path(a)}]

BuildErrorMessage(a) == <<"Error while building app ", a.app_name, ".">>

GradleFailed_Ignored(a, s) == MakeExecutable(a, s)

\* lines 123-127
GradleFailed(a, s) == Raise(s, "BriefcaseCommandError", BuildErrorMessage(a))

\* lines 104-127
build_app(a, s, rc, eff) ==
    LET g == RunGradle(a, s, rc, eff) IN
    IF rc # 0 THEN GradleFailed(a, g) ELSE MakeExecutable(a, g)

----------------------------------------------------------------------------
(* ApkRunCommand.run_app *)

\* str.format on a message given as its sequence of literal pieces and
\* replacement fields
Format(template, kw) ==
    [i \in DOMAIN template |->
        IF template[i] \in DOMAIN kw THEN kw[template[i]] ELSE template[i]]

\* lines 130-150
NO_OR_WRONG_DEVICE_MESSAGE ==
    <<"You can get a list of valid devices by running this command: $ ",
      "{adb}", " devices -l. If you do not see any devices, create one: $ ",
      "{tools_bin}", "/sdkmanager platforms;android-28 ... $ ",
      "{tools_bin}", "/avdmanager --verbose create avd ... $ ",
      "{emulator}", " -avd robotfriend & Then find the device name: $ ",
      "{adb}", " devices -l">>

\* lines 189-191: the text has no replacement field
MISSING_DEVICE_MESSAGE ==
    <<"Please specify a specific device on which to run the app by passing -d device_name.">>

\* lines 192-194 and 205-207
MessagePaths ==
    ("{adb}" :> adb_path) @@
    ("{emulator}" :> Join(emulator_path, "emulator")) @@
    ("{tools_bin}" :> tools_bin_path)

AdbOutcomes == {"ok", "DeviceNotFound", "BriefcaseCommandError"}

MainActivity == "org.beeware.android.MainActivity"

Package_NameOnly(a) == a.app_name

\* line 212
Package(a) == a.bundle \o "." \o a.app_name

device_missing_Never(dev) == FALSE

\* line 188
device_missing(dev) == dev = None

InstallApk_Continue(a, dev, s, i) ==
    LET c == Call(s, <<"install_apk", android_sdk_path, dev, binary_path(a)>>, i)
    IN  IF i \in {"ok", "DeviceNotFound"} THEN c
        ELSE Raise(c, i, <<"install_apk">>)

\* lines 200-208: a DeviceNotFound of install_apk is replaced by the
\* remediation message, any other exception leaves run_app as it is
InstallApk(a, dev, s, i) ==
    LET c == Call(s, <<"install_apk", android_sdk_path, dev, binary_path(a)>>, i)
    IN  IF i = "ok" THEN c
        ELSE IF i = "DeviceNotFound"
        THEN Raise(c, "BriefcaseCommandError",
                   Format(NO_OR_WRONG_DEVICE_MESSAGE, MessagePaths))
        ELSE Raise(c, i, <<"install_apk">>)

ForceStopApp_BestEffort(a, dev, s, f) ==
    Call(s, <<"force_stop_app", android_sdk_path, dev, Package(a)>>, f)

\* line 215
ForceStopApp(a, dev, s, f) ==
    LET c == Call(s, <<"force_stop_app", android_sdk_path, dev, Package(a)>>, f)
    IN  IF f = "ok" THEN c ELSE Raise(c, f, <<"force_stop_app">>)

\* lines 218-221
StartApp(a, dev, s, t) ==
    LET c == Call(s, <<"start_app", android_sdk_path, dev, Package(a),
                       MainActivity>>, t)
    IN  IF t = "ok" THEN c ELSE Raise(c, t, <<"start_app">>)

\* lines 179-221
run_app(a, dev, s, i, f, t) ==
    IF device_missing(dev)
    THEN Raise(s, "BriefcaseCommandError",
               Format(MISSING_DEVICE_MESSAGE, MessagePaths))
    ELSE LET s1 == InstallApk(a, dev, s, i) IN
         IF Failed(s1) THEN s1 ELSE
         LET s2 == ForceStopApp(a, dev, s1, f) IN
         IF Failed(s2) THEN s2 ELSE StartApp(a, dev, s2, t)

----------------------------------------------------------------------------
(* The command invocations *)

\* no gradle subprocess has been given an environment yet
NoEnv == [k \in {} |-> ""]

NoApp == [app_name |-> "", bundle |-> "", formal_name |-> ""]

SdkInstalled == {android_sdk_path, licenses_path} \cup ArchiveEntries

\* the filesystems a host starts with: nothing, an SDK installed and
\* licensed, the same with the emulator components
InitialFilesystems ==
    { [files |-> {}, execs |-> {}],
      [files |-> SdkInstalled, execs |-> ArchiveEntries],
      [files |-> SdkInstalled \cup EmulatorComponents,
       execs |-> ArchiveEntries \cup EmulatorComponents] }

Here == [files |-> files, execs |-> execs, calls |-> calls, exc |-> exc]

\* the handler state r becomes the state of the invocation
Becomes(r) ==
    /\ files' = r.files
    /\ execs' = r.execs
    /\ calls' = r.calls
    /\ exc' = r.exc

Init ==
    /\ command = "none"
    /\ app = NoApp
    /\ device = None
    /\ python_version_tag \in PythonVersions
    /\ host_os \in HostOs
    /\ net = "ok"
    /\ environ \in Environments
    /\ build_env = NoEnv
    /\ \E fs \in InitialFilesystems : files = fs.files /\ execs = fs.execs
    /\ calls = <<>>
    /\ exc = NoExc
    /\ pc = "idle"
    /\ handler = "none"
    /\ files0 = files
    /\ execs0 = execs
    /\ invocations = 0

\* a command is invoked for an app; only run has the --device option
Invoke ==
    /\ pc \in {"idle", "done"}
    /\ invocations < MaxInvocations
    /\ command' \in Commands
    /\ app' \in Apps
    /\ device' \in (IF command' = "run" THEN DeviceOptions ELSE {None})
    /\ net' \in NetOutcomes
    /\ calls' = <<>>
    /\ exc' = NoExc
    /\ pc' = "verify"
    /\ handler' = "none"
    /\ files0' = files
    /\ execs0' = execs
    /\ invocations' = invocations + 1
    /\ UNCHANGED <<python_version_tag, host_os, environ, build_env, files,
                   execs>>

\* create and build: ApkMixin.verify_tools
VerifyTools ==
    /\ pc = "verify"
    /\ command \in {"create", "build"}
    /\ \E x \in SUBSET ArchiveEntries, rc \in ExitCodes :
          LET r == ApkMixin_verify_tools(command, host_os,
                       python_version_tag, Here, net, x, rc)
          IN  /\ Becomes(r)
              /\ pc' = IF ~Failed(r) /\ command = "build" THEN "app"
                       ELSE "done"
    /\ handler' = "verify_tools"
    /\ UNCHANGED <<command, app, device, python_version_tag, host_os, net,
                   environ, build_env, files0, execs0, invocations>>

\* run: ApkRunCommand.verify_tools
RunVerifyTools ==
    /\ pc = "verify"
    /\ command = "run"
    /\ \E x \in SUBSET ArchiveEntries, rc \in ExitCodes, erc \in ExitCodes :
          LET r == ApkRunCommand_verify_tools(host_os, python_version_tag,
                       Here, net, x, rc, erc)
          IN  /\ Becomes(r)
              /\ pc' = IF Failed(r) THEN "done" ELSE "app"
    /\ handler' = "verify_tools"
    /\ UNCHANGED <<command, app, device, python_version_tag, host_os, net,
                   environ, build_env, files0, execs0, invocations>>

BuildApp ==
    /\ pc = "app"
    /\ command = "build"
    /\ \E rc \in ExitCodes : \E eff \in GradleEffects(rc) :
          Becomes(build_app(app, Here, rc, eff))
    /\ pc' = "done"
    /\ handler' = "build_app"
    /\ build_env' = gradle_env(environ)
    /\ UNCHANGED <<command, app, device, python_version_tag, host_os, net,
                   environ, files0, execs0, invocations>>

RunApp ==
    /\ pc = "app"
    /\ command = "run"
    /\ \E i \in AdbOutcomes, f \in AdbOutcomes, t \in AdbOutcomes :
          Becomes(run_app(app, device, Here, i, f, t))
    /\ pc' = "done"
    /\ handler' = "run_app"
    /\ UNCHANGED <<command, app, device, python_version_tag, host_os, net,
                   environ, build_env, files0, execs0, invocations>>

Next == Invoke \/ VerifyTools \/ RunVerifyTools \/ BuildApp \/ RunApp

Spec == Init /\ [][Next]_vars

----------------------------------------------------------------------------
(* Properties *)

Range(f) == {f[i] : i \in DOMAIN f}

AdbOps == {"install_apk", "force_stop_app", "start_app"}

IsAdbCall(c) == c.op[1] \in AdbOps

\* an operation of the provisioning of lines 54-79
IsProvisioningCall(c) ==
    \/ c.op[1] \in {"download_url", "extractall", "unlink"}
    \/ c.op[1] = "chmod" /\ c.op[2] \in ArchiveEntries
    \/ c.op = <<"sdkmanager", "--licenses">>

AllCallsOk == \A i \in DOMAIN calls : calls[i].out = "ok"

\* the operations of a complete provisioning, in order
FullProvisioning ==
    << <<"download_url", android_sdk_url(host_os), tools_dir>>,
       <<"extractall", android_sdk_zip_path(host_os), android_sdk_path>>,
       <<"unlink", android_sdk_zip_path(host_os)>>,
       <<"chmod", sdkmanager_path>>,
       <<"chmod", avdmanager_path>>,
       <<"sdkmanager", "--licenses">> >>

\* C1: a verify_tools of create or build that starts with Python 3.7 and
\* without the toolchain root, and in which every operation it performs
\* succeeds, returns normally after exactly one download, one extraction,
\* the chmod of every entry of tools/bin and one sdkmanager --licenses, in
\* that order.
C1_ProvisioningSequence ==
    ( /\ handler = "verify_tools"
      /\ command \in {"create", "build"}
      /\ python_version_tag = RequiredPython
      /\ android_sdk_path \notin files0
      /\ AllCallsOk )
    => /\ exc = NoExc
       /\ [i \in DOMAIN calls |-> calls[i].op] = FullProvisioning

\* C2: a verify_tools that starts with the toolchain root present performs
\* no download, extraction, archive deletion, chmod or license acceptance
\* and leaves the paths provisioning writes as they were; the only
\* operation it can perform is the run pathway's package-manager call.
C2_PresentRootNoProvisioning ==
    (handler = "verify_tools" /\ android_sdk_path \in files0)
    => /\ \A i \in DOMAIN calls :
             ~IsProvisioningCall(calls[i]) /\ calls[i].op = EmulatorPackages
       /\ files \ EmulatorComponents = files0 \ EmulatorComponents
       /\ execs \ EmulatorComponents = execs0 \ EmulatorComponents
       /\ (command # "run" => calls = <<>> /\ files = files0 /\ execs = execs0)

\* the second of two provisioning calls finds the root and returns
C2_Witness ==
    /\ handler = "verify_tools"
    /\ command = "build"
    /\ invocations >= 2
    /\ android_sdk_path \in files0
    /\ android_sdk_path \in files
    /\ exc = NoExc

AdbCalls == SelectSeq(calls, IsAdbCall)

\* C3: a run_app that returns made exactly three device-bridge calls, in the
\* order install, force-stop, start, all three for the device of the
\* invocation, force-stop and start for the package bundle.app_name.
C3_InstallStopStart ==
    (handler = "run_app" /\ exc = NoExc)
    => /\ Len(AdbCalls) = 3
       /\ AdbCalls[1].op = <<"install_apk", android_sdk_path, device,
                             binary_path(app)>>
       /\ AdbCalls[2].op = <<"force_stop_app", android_sdk_path, device,
                             app.bundle \o "." \o app.app_name>>
       /\ AdbCalls[3].op = <<"start_app", android_sdk_path, device,
                             app.bundle \o "." \o app.app_name,
                             "org.beeware.android.MainActivity">>
       /\ \A i \in 1..3 : AdbCalls[i].out = "ok"

C3_Witness ==
    /\ handler = "run_app"
    /\ exc = NoExc
    /\ device \in DeviceIds
    /\ Len(AdbCalls) = 3

InstallReported(out) ==
    \E i \in DOMAIN calls : calls[i].op[1] = "install_apk" /\ calls[i].out = out

\* C4: when install reports the device as unknown, run_app ends with a
\* BriefcaseCommandError whose message is the remediation text with the adb,
\* sdkmanager and emulator paths filled in, and the install is the only
\* device-bridge call made.
C4_DeviceNotFound ==
    (handler = "run_app" /\ InstallReported("DeviceNotFound"))
    => /\ exc.type = "BriefcaseCommandError"
       /\ Len(exc.msg) = Len(NO_OR_WRONG_DEVICE_MESSAGE)
       /\ {adb_path, tools_bin_path} \subseteq Range(exc.msg)
       /\ Range(exc.msg) \cap DOMAIN MessagePaths = {}
       /\ Len(AdbCalls) = 1
       /\ pc = "done"

C4_Witness ==
    /\ handler = "run_app"
    /\ InstallReported("DeviceNotFound")
    /\ device \in DeviceIds
    /\ exc.type = "BriefcaseCommandError"

\* C5 as claimed: a run without a device identifier fails before any
\* external tool was invoked in the invocation.
C5_NoToolBeforeMissingTarget ==
    (handler = "run_app" /\ device = None) => calls = <<>>

\* C5: run_app without a device identifier fails with the error asking for
\* one and makes no install, force-stop or start call; the operations of
\* the invocation are those verify_tools performed before it.
C5_NoAdbCallWithoutDevice ==
    (command = "run" /\ device = None /\ handler # "none")
    => /\ AdbCalls = <<>>
       /\ \A i \in DOMAIN calls : calls[i].op = EmulatorPackages
       /\ handler = "run_app"
            => /\ exc.type = "BriefcaseCommandError"
               /\ exc.msg = MISSING_DEVICE_MESSAGE

C5_Witness ==
    /\ handler = "run_app"
    /\ device = None
    /\ exc.type = "BriefcaseCommandError"
    /\ calls # <<>>

GradleReported(out) ==
    \E i \in DOMAIN calls : calls[i].op[1] = "./gradlew" /\ calls[i].out = out

ArtifactChmodded ==
    \E i \in DOMAIN calls : calls[i].op = <<"chmod", binary_path(app)>>

\* C6: when gradle exits non-zero, build_app ends with a
\* BriefcaseCommandError whose message names the app of the invocation, and
\* no chmod of the artifact is performed in the invocation.
C6_BuildFailure ==
    (handler = "build_app" /\ GradleReported("nonzero"))
    => /\ exc.type = "BriefcaseCommandError"
       /\ exc.msg = <<"Error while building app ", app.app_name, ".">>
       /\ ~ArtifactChmodded
       /\ (binary_path(app) \in execs => binary_path(app) \in execs0)

C6_Witness ==
    /\ handler = "build_app"
    /\ GradleReported("nonzero")
    /\ exc.type = "BriefcaseCommandError"
    /\ app.app_name \in Range(exc.msg)

\* C7: a verify_tools that starts with Python 3.7, without the toolchain
\* root and with the archive URL unreachable ends with NetworkFailure and
\* without the toolchain root.
C7_UnreachableArchive ==
    ( /\ handler = "verify_tools"
      /\ python_version_tag = RequiredPython
      /\ android_sdk_path \notin files0
      /\ net = "ConnectionError" )
    => /\ exc.type = "NetworkFailure"
       /\ android_sdk_path \notin files

\* C8: with a host Python other than 3.7, verify_tools of every command
\* ends with the BriefcaseCommandError naming the version found; it performs
\* no operation, changes no file and no later handler runs.
C8_VersionMismatch ==
    (python_version_tag # "3.7" /\ handler # "none")
    => /\ handler = "verify_tools"
       /\ pc = "done"
       /\ exc.type = "BriefcaseCommandError"
       /\ exc.msg = <<"Found Python version ", python_version_tag,
                      ". Android packaging currently requires Python 3.7.">>
       /\ calls = <<>>
       /\ files = files0
       /\ execs = execs0

C8_Witness ==
    /\ handler = "verify_tools"
    /\ python_version_tag = "3.9"
    /\ command = "run"
    /\ android_sdk_path \notin files0
    /\ emulator_path \notin files0
    /\ exc.type = "BriefcaseCommandError"

\* C9 as claimed: after a build invocation, the artifact existing implies
\* that this build succeeded.
C9_ArtifactImpliesLastBuildSucceeded ==
    (handler = "build_app" /\ binary_path(app) \in files) => exc = NoExc

\* C9: a build invocation that succeeds leaves the artifact existing and
\* executable (the converse fails: a failed build leaves the artifact of an
\* earlier build in place).
C9_SuccessfulBuildLeavesArtifact ==
    (handler = "build_app" /\ exc = NoExc)
    => /\ binary_path(app) \in files
       /\ binary_path(app) \in execs
       /\ GradleReported("ok")

C9_Witness ==
    /\ handler = "build_app"
    /\ exc = NoExc
    /\ binary_path(app) \in files
    /\ ArtifactChmodded

EmulatorInstallReported(out) ==
    \E i \in DOMAIN calls : calls[i].op = EmulatorPackages /\ calls[i].out = out

\* C10: when the package manager installing the emulator components exits
\* non-zero, the run pathway's verify_tools ends with an exception and the
\* invocation does not go on to run_app.
C10_EmulatorInstallFailureSurfaces ==
    (command = "run" /\ EmulatorInstallReported("nonzero"))
    => /\ exc # NoExc
       /\ handler = "verify_tools"
       /\ pc = "done"

DownloadFailed ==
    \E i \in DOMAIN calls :
        calls[i].op[1] = "download_url" /\ calls[i].out # "ok"

\* C12: whatever transport failure ends the download of the archive,
\* verify_tools ends with NetworkFailure("downloading Android SDK"); the
\* exception of the transport layer never leaves verify_tools as it is.
C12_TransportFailureIsNetworkFailure ==
    (handler = "verify_tools" /\ DownloadFailed)
    => /\ exc.type = "NetworkFailure"
       /\ exc.msg = <<"downloading Android SDK">>

\* C13: the error of a run without device identifier is a
\* BriefcaseCommandError whose message carries the remediation script of
\* NO_OR_WRONG_DEVICE_MESSAGE with the adb, sdkmanager and emulator paths.
C13_MissingTargetCarriesRemediation ==
    (handler = "run_app" /\ device = None)
    => /\ exc.type = "BriefcaseCommandError"
       /\ Range(Format(NO_OR_WRONG_DEVICE_MESSAGE, MessagePaths))
              \subseteq Range(exc.msg)

\* C14: the environment build_app gives the gradle subprocess has every
\* inherited variable other than ANDROID_SDK_ROOT with its inherited value
\* and no further variable, has ANDROID_SDK_ROOT set to the toolchain root
\* whatever the inherited environment says, and os.environ is left as it was.
C14_BuildEnvironment ==
    [][ (pc = "app" /\ command = "build")
        => /\ environ' = environ
           /\ DOMAIN build_env' = DOMAIN environ \cup {"ANDROID_SDK_ROOT"}
           /\ build_env'["ANDROID_SDK_ROOT"] = android_sdk_path
           /\ \A k \in DOMAIN environ \ {"ANDROID_SDK_ROOT"} :
                 build_env'[k] = environ[k] ]_vars

\* a build whose inherited environment names another SDK root
C14_Witness ==
    /\ handler = "build_app"
    /\ "ANDROID_SDK_ROOT" \in DOMAIN environ
    /\ environ["ANDROID_SDK_ROOT"] # android_sdk_path
    /\ "PATH" \in DOMAIN build_env
    /\ build_env["ANDROID_SDK_ROOT"] = android_sdk_path

SdkProvisioned ==
    /\ ArchiveEntries \subseteq files
    /\ ArchiveEntries \subseteq execs
    /\ licenses_path \in files

\* C15: over any sequence of invocations, a verify_tools returns
\* successfully only if the archive is fully extracted, the entries of
\* tools/bin are executable and the licenses are accepted, by this
\* invocation or an earlier one.
C15_SuccessImpliesProvisioned ==
    (handler = "verify_tools" /\ exc = NoExc) => SdkProvisioned

\* C16: a run verify_tools that starts with Python 3.7 and without the
\* toolchain root, and in which every operation performed succeeds,
\* downloads, extracts, chmods and licenses the SDK and then invokes the
\* package manager; the package manager is invoked only after operations
\* that all succeeded, and never on the build pathway.
C16_RunPathwayStageOrder ==
    /\ ( /\ handler = "verify_tools"
         /\ command = "run"
         /\ python_version_tag = RequiredPython
         /\ android_sdk_path \notin files0
         /\ AllCallsOk )
       => /\ exc = NoExc
          /\ [i \in DOMAIN calls |-> calls[i].op]
                 = FullProvisioning \o <<EmulatorPackages>>
    /\ \A i \in DOMAIN calls :
          calls[i].op = EmulatorPackages
          => /\ command = "run"
             /\ \A j \in 1..(i - 1) : calls[j].out = "ok"

AdbOrder == <<"install_apk", "force_stop_app", "start_app">>

\* C17: the device-bridge calls of a run invocation are a prefix of
\* install, force-stop, start; every call but the last succeeded; a call
\* that failed is the last one and ends the invocation with an exception;
\* run_app makes no other call (no uninstall, no rollback).
C17_DeployStateMachine ==
    (command = "run" /\ handler # "none")
    => /\ Len(AdbCalls) <= 3
       /\ \A i \in DOMAIN AdbCalls :
             /\ AdbCalls[i].op[1] = AdbOrder[i]
             /\ i < Len(AdbCalls) => AdbCalls[i].out = "ok"
             /\ AdbCalls[i].out # "ok"
                  => i = Len(AdbCalls) /\ exc # NoExc /\ pc = "done"
       /\ \A i \in DOMAIN calls :
             IsAdbCall(calls[i]) \/ calls[i].op = EmulatorPackages
       /\ (handler = "run_app" /\ exc = NoExc) => Len(AdbCalls) = 3

\* force-stop fails after a successful install: start is not called
C17_Witness ==
    /\ handler = "run_app"
    /\ Len(AdbCalls) = 2
    /\ AdbCalls[1].out = "ok"
    /\ AdbCalls[2].out = "BriefcaseCommandError"
    /\ exc.type = "BriefcaseCommandError"

\* C18: a run with the empty device identifier ends like a run without
\* one: with the error asking for a device, before any device-bridge call.
C18_EmptyDeviceRejected ==
    (handler = "run_app" /\ device = "")
    => /\ exc.type = "BriefcaseCommandError"
       /\ exc.msg = MISSING_DEVICE_MESSAGE
       /\ AdbCalls = <<>>

====
